---------------------------- MODULE Spec2Model ----------------------------
(***************************************************************************)
(* Backtrace symbolization of src/src/utils.cc: parse_backtrace_line,      *)
(* demangle_cpp_name, run_addr2line and print_backtrace.                   *)
(*                                                                         *)
(* A character is a one-character string and a C string a sequence of     *)
(* characters.  A C buffer holding the string s has the indices            *)
(* -1 .. Len(s): index Len(s) is the terminator and index -1 is the byte   *)
(* that happens to precede the allocation.                                 *)
(***************************************************************************)
EXTENDS Integers, Sequences, FiniteSets, TLC

VARIABLES
    use_addr2line,    \* the argument of print_backtrace
    size,             \* what backtrace returned
    symbols,          \* what backtrace_symbols returned, when not NULL
    symbols_is_null,  \* backtrace_symbols returned NULL
    i,                \* the loop index
    pc,               \* where print_backtrace is
    out,              \* the characters written to the FILE so far
    line,             \* the scoped_malloc copy of symbols[i]
    parsed,           \* the return value of parse_backtrace_line
    executable, function, offset, address,  \* its out-parameters
    acc,              \* the indices of line the parser read or wrote
    spawned,          \* number of subprocesses started by popen
    proc,             \* the addr2line subprocess
    hist              \* per frame: what was parsed, demangled and resolved

vars == <<use_addr2line, size, symbols, symbols_is_null, i, pc, out,
          line, parsed, executable, function, offset, address, acc,
          spawned, proc, hist>>

-----------------------------------------------------------------------------
(* Bounds of the model.                                                    *)

MaxFrames == 2
MaxRawLen == 6
MaxFieldLenA == 1
MaxFieldLenB == 2

(* Program constants.                                                      *)

max_frames == 100
line_size == 255

-----------------------------------------------------------------------------
(* Characters and C strings.                                               *)

NUL == "NUL"
NULLP == 0 - 2
NL == "\n"

Alphabet == {"(", ")", "+", " ", "[", "]", "a"}

RECURSIVE StringsUpTo(_, _)
StringsUpTo(chars, n) ==
    IF n = 0 THEN {<<>>}
    ELSE LET shorter == StringsUpTo(chars, n - 1)
         IN shorter \cup {Append(s, c) : s \in shorter, c \in chars}

Digit(d) == <<"0", "1", "2", "3", "4", "5", "6", "7", "8", "9">>[d + 1]

RECURSIVE Itoa(_)
Itoa(n) == IF n < 10 THEN <<Digit(n)>>
           ELSE Itoa(n \div 10) \o <<Digit(n % 10)>>

(* A buffer is the tuple <<byte before, s[1], ..., s[n], NUL>>; At and Put *)
(* read and write it by C index, -1 .. n.                                  *)
MkBuf(s, pre) == <<pre>> \o s \o <<NUL>>

At(mem, k) == mem[k + 2]

Put(mem, k, c) == [mem EXCEPT ![k + 2] = c]

FreedBuf == MkBuf(<<>>, NUL)

BufEnd(mem) == Len(mem) - 2

FirstStop(mem, from, c) ==
    CHOOSE j \in from .. BufEnd(mem) :
        /\ At(mem, j) \in {c, NUL}
        /\ \A k \in from .. (j - 1) : At(mem, k) \notin {c, NUL}

CStr(mem, p) ==
    LET e == FirstStop(mem, p, NUL) IN SubSeq(mem, p + 2, e + 1)

-----------------------------------------------------------------------------
(* parse_backtrace_line.  The result records the return value, the buffer  *)
(* as the call leaves it, the four out-parameters and the set of buffer    *)
(* indices the call read or wrote.                                         *)

ParseRet(ok, mem, fn, off, addr, touched) ==
    [ok |-> ok, mem |-> mem, filename |-> 0, function |-> fn,
     offset |-> off, address |-> addr, acc |-> touched]

ParseAddress(mem, at, fn, off, touched) ==
    IF At(mem, at) # "["
    THEN ParseRet(FALSE, mem, fn, off, NULLP, touched \cup {at})
    ELSE LET addr == at + 1
             stop == FirstStop(mem, addr, "]")
             t1 == touched \cup (at .. stop)
         IN IF At(mem, stop) # "]"
            THEN ParseRet(FALSE, mem, fn, off, addr, t1)
            ELSE IF At(mem, stop + 1) # NUL
            THEN ParseRet(FALSE, mem, fn, off, addr, t1 \cup {stop + 1})
            ELSE ParseRet(TRUE, Put(mem, stop, NUL), fn, off, addr,
                          t1 \cup {stop + 1})

ParseShapeA(mem, paren1, touched) ==
    LET stop2 == FirstStop(mem, 0, ")")
        t1 == touched \cup (0 .. stop2)
    IN IF At(mem, stop2) # ")"
       THEN ParseRet(FALSE, mem, NULLP, NULLP, NULLP, t1)
       ELSE LET paren2 == stop2
                mem1 == Put(Put(mem, paren1, NUL), paren2, NUL)
                fn == paren1 + 1
                stopp == FirstStop(mem1, fn, "+")
                t2 == t1 \cup (fn .. stopp)
            IN IF At(mem1, stopp) # "+"
               THEN ParseRet(FALSE, mem1, fn, NULLP, NULLP, t2)
               ELSE LET mem2 == Put(mem1, stopp, NUL)
                        off == stopp + 1
                        at == paren2 + 1
                    IN IF At(mem2, at) # " "
                       THEN ParseRet(FALSE, mem2, fn, off, NULLP,
                                     t2 \cup {at})
                       ELSE ParseAddress(mem2, at + 1, fn, off,
                                         t2 \cup {at})

ParseShapeB_KeepsSpace(mem, touched) ==
    LET stopb == FirstStop(mem, 0, "[")
        t1 == touched \cup (0 .. stopb)
    IN IF At(mem, stopb) # "["
       THEN ParseRet(FALSE, mem, NULLP, NULLP, NULLP, t1)
       ELSE LET at == stopb - 1
            IN IF At(mem, at) # " "
               THEN ParseRet(FALSE, mem, NULLP, NULLP, NULLP, t1 \cup {at})
               ELSE ParseAddress(mem, at + 1, NULLP, NULLP, t1 \cup {at})

ParseShapeB(mem, touched) ==
    LET stopb == FirstStop(mem, 0, "[")
        t1 == touched \cup (0 .. stopb)
    IN IF At(mem, stopb) # "["
       THEN ParseRet(FALSE, mem, NULLP, NULLP, NULLP, t1)
       ELSE LET at == stopb - 1
            IN IF At(mem, at) # " "
               THEN ParseRet(FALSE, mem, NULLP, NULLP, NULLP, t1 \cup {at})
               ELSE ParseAddress(Put(mem, at, NUL), at + 1,
                                 NULLP, NULLP, t1 \cup {at})

parse_backtrace_line(mem) ==
    LET stop1 == FirstStop(mem, 0, "(")
    IN IF At(mem, stop1) = "("
       THEN ParseShapeA(mem, stop1, 0 .. stop1)
       ELSE ParseShapeB(mem, 0 .. stop1)

(* The byte in front of the allocation is whatever the allocator left      *)
(* there: a space or anything else.                                        *)
PreBytes == {" ", NUL}

-----------------------------------------------------------------------------
(* demangle_cpp_name.  abi::__cxa_demangle is the Itanium inverse          *)
(* transform, here on the names _Z<d><identifier><parameter codes> with    *)
(* the codes i (int) and v (no parameters); every other name is not a      *)
(* mangled name (status -2), and an allocation failure gives status -1.    *)

DigitChars == {"1", "2", "3", "4", "5", "6", "7", "8", "9"}

DigitVal(c) == CHOOSE d \in 1 .. 9 : Digit(d) = c

RECURSIVE ParamList(_)
ParamList(codes) ==
    IF Len(codes) = 0 THEN <<>>
    ELSE IF Len(codes) = 1 THEN <<"i", "n", "t">>
    ELSE <<"i", "n", "t", ",", " ">> \o ParamList(Tail(codes))

CxaDemangle(mangled, alloc_ok) ==
    LET n == Len(mangled)
        wellformed ==
            /\ n >= 5
            /\ mangled[1] = "_"
            /\ mangled[2] = "Z"
            /\ mangled[3] \in DigitChars
            /\ n >= 4 + DigitVal(mangled[3])
            /\ LET codes == SubSeq(mangled, 4 + DigitVal(mangled[3]), n)
               IN \/ codes = <<"v">>
                  \/ \A k \in 1 .. Len(codes) : codes[k] = "i"
    IN IF ~wellformed THEN [res |-> 0 - 2, name |-> <<>>]
       ELSE IF ~alloc_ok THEN [res |-> 0 - 1, name |-> <<>>]
       ELSE LET d == DigitVal(mangled[3])
                codes == SubSeq(mangled, 4 + d, n)
            IN [res |-> 0,
                name |-> SubSeq(mangled, 4, 3 + d) \o <<"(">>
                         \o (IF codes = <<"v">> THEN <<>> ELSE ParamList(codes))
                         \o <<")">>]

(* ok = FALSE stands for the throw of demangle_failed_exc_t.               *)
demangle_cpp_name(mangled_name, alloc_ok) ==
    LET r == CxaDemangle(mangled_name, alloc_ok)
    IN IF r.res = 0 THEN [ok |-> TRUE, name |-> r.name]
       ELSE [ok |-> FALSE, name |-> <<>>]

-----------------------------------------------------------------------------
(* run_addr2line after popen succeeded: what it makes of the bytes the     *)
(* subprocess wrote before it closed its standard output.                  *)

UnknownLocation == <<"?", "?", ":", "0">>

Addr2lineOutputs ==
    { <<>>,
      UnknownLocation \o <<NL>>,
      <<"f", ".", "c", ":", "7", NL>>,
      <<"f", ".", "c", ":", "7">> }

run_addr2line(written) ==
    LET count == IF Len(written) < line_size - 1 THEN Len(written)
                 ELSE line_size - 1
        text == IF count > 0 /\ written[count] = NL
                THEN SubSeq(written, 1, count - 1)
                ELSE SubSeq(written, 1, count)
    IN IF count = 0 THEN [ok |-> FALSE, line |-> <<>>]
       ELSE IF text = UnknownLocation THEN [ok |-> FALSE, line |-> text]
       ELSE [ok |-> TRUE, line |-> text]

-----------------------------------------------------------------------------
(* print_backtrace.                                                        *)

Sentinel ==
    <<"(", "t", "o", "o", " ", "l", "i", "t", "t", "l", "e", " ",
      "m", "e", "m", "o", "r", "y", " ", "f", "o", "r", " ",
      "b", "a", "c", "k", "t", "r", "a", "c", "e", ")">>

Prog == <<".", "/", "p", "r", "o", "g">>
Addr == <<"0", "x", "4", "0", "0", "5", "a", "0">>
Off == <<"0", "x", "1", "0">>

ShapeA(m, f, o, a) ==
    m \o <<"(">> \o f \o <<"+">> \o o \o <<")", " ", "[">> \o a \o <<"]">>

ShapeB(m, a) == m \o <<" ", "[">> \o a \o <<"]">>

(* Descriptors as backtrace_symbols writes them: a mangled C++ function, a *)
(* C function, a frame without a symbol name, a frame without a symbol     *)
(* table entry, a frame outside every module, and two unrecognized lines.  *)
ReportLines ==
    { ShapeA(Prog, <<"_", "Z", "3", "f", "o", "o", "i">>, Off, Addr),
      ShapeA(Prog, <<"m", "a", "i", "n">>, Off, Addr),
      ShapeA(Prog, <<>>, Off, Addr),
      ShapeB(Prog, Addr),
      <<"[">> \o Addr \o <<"]">>,
      Prog \o <<"(", ")", " ", "[">> \o Addr \o <<"]">>,
      <<"g", "a", "r", "b", "a", "g", "e">> }

Init ==
    /\ use_addr2line \in BOOLEAN
    /\ size \in 0 .. (IF MaxFrames < max_frames THEN MaxFrames ELSE max_frames)
    /\ symbols_is_null \in BOOLEAN
    /\ symbols \in IF symbols_is_null THEN {<<>>}
                   ELSE [1 .. size -> ReportLines]
    /\ i = 0
    /\ pc = "entry"
    /\ out = <<>>
    /\ line = FreedBuf
    /\ parsed = FALSE
    /\ executable = NULLP
    /\ function = NULLP
    /\ offset = NULLP
    /\ address = NULLP
    /\ acc = {}
    /\ spawned = 0
    /\ proc = [state |-> "none", written |-> <<>>]
    /\ hist = <<>>

Inputs == <<use_addr2line, size, symbols, symbols_is_null>>

FrameLocals == <<line, parsed, executable, function, offset, address, acc>>

ResolveUnavailable_Numbered ==
    /\ pc = "entry"
    /\ symbols_is_null
    /\ out' = out \o <<"1", ":", " ">> \o Sentinel \o <<NL>>
    /\ pc' = "done"
    /\ UNCHANGED <<use_addr2line, size, symbols, symbols_is_null, i, line,
                   parsed, executable, function, offset, address, acc,
                   spawned, proc, hist>>

(* The else branch of "if (symbols)".                                      *)
ResolveUnavailable ==
    /\ pc = "entry"
    /\ symbols_is_null
    /\ out' = out \o Sentinel \o <<NL>>
    /\ pc' = "done"
    /\ UNCHANGED <<Inputs, i, FrameLocals, spawned, proc, hist>>

ResolveOk ==
    /\ pc = "entry"
    /\ ~symbols_is_null
    /\ i' = 0
    /\ pc' = "loop"
    /\ UNCHANGED <<Inputs, out, FrameLocals, spawned, proc, hist>>

LoopExit ==
    /\ pc = "loop"
    /\ ~(i < size)
    /\ pc' = "done"
    /\ UNCHANGED <<Inputs, i, out, FrameLocals, spawned, proc, hist>>

FramePrefix(n) == Itoa(n) \o <<":", " ">>

RawFallbackText_FromCopy(symbol, buf) == CStr(buf, 0)

RawFallbackText(symbol, buf) == symbol

FrameRecord(r) ==
    [parsed |-> r.ok,
     raw |-> CStr(r.mem, 0),
     module |-> IF r.ok THEN CStr(r.mem, r.filename) ELSE <<>>,
     has_function |-> r.ok /\ r.function # NULLP,
     fn |-> IF r.ok /\ r.function # NULLP THEN CStr(r.mem, r.function)
            ELSE <<>>,
     off |-> IF r.ok /\ r.offset # NULLP THEN CStr(r.mem, r.offset) ELSE <<>>,
     addr |-> IF r.ok THEN CStr(r.mem, r.address) ELSE <<>>,
     dem_called |-> FALSE, dem_ok |-> FALSE, dem_name |-> <<>>,
     popen_called |-> FALSE, loc_ok |-> FALSE, loc |-> <<>>]

EndFrame ==
    /\ i' = i + 1
    /\ pc' = "loop"
    /\ line' = FreedBuf
    /\ parsed' = FALSE
    /\ executable' = NULLP
    /\ function' = NULLP
    /\ offset' = NULLP
    /\ address' = NULLP
    /\ acc' = {}

(* Copy the descriptor, print the frame number, parse the copy; the parse  *)
(* fails and the descriptor itself is printed.                             *)
FrameUnparsed ==
    /\ pc = "loop"
    /\ i < size
    /\ \E pre \in PreBytes :
          \E r \in {parse_backtrace_line(MkBuf(symbols[i + 1], pre))} :
             /\ ~r.ok
             /\ hist' = Append(hist, FrameRecord(r))
             /\ out' = out \o FramePrefix(i + 1)
                           \o RawFallbackText(symbols[i + 1], r.mem)
                           \o <<NL>>
    /\ EndFrame
    /\ UNCHANGED <<Inputs, spawned, proc>>

(* The same with a parse that succeeds: the out-parameters point into the  *)
(* copy.                                                                   *)
FrameParsed ==
    /\ pc = "loop"
    /\ i < size
    /\ \E pre \in PreBytes :
          \E r \in {parse_backtrace_line(MkBuf(symbols[i + 1], pre))} :
             /\ r.ok
             /\ hist' = Append(hist, FrameRecord(r))
             /\ out' = out \o FramePrefix(i + 1)
             /\ line' = r.mem
             /\ parsed' = TRUE
             /\ executable' = r.filename
             /\ function' = r.function
             /\ offset' = r.offset
             /\ address' = r.address
             /\ acc' = r.acc
    /\ pc' = "name"
    /\ UNCHANGED <<Inputs, i, spawned, proc>>

NameFallback_NoOffset(fn, off) == fn

NameFallback(fn, off) == fn \o <<"+">> \o off

NameStep ==
    /\ pc = "name"
    /\ IF function # NULLP
       THEN \E alloc_ok \in BOOLEAN :
            \E d \in {demangle_cpp_name(CStr(line, function), alloc_ok)} :
               LET name == IF d.ok THEN d.name
                           ELSE NameFallback(CStr(line, function),
                                             CStr(line, offset))
               IN /\ out' = out \o name \o <<" ", "a", "t", " ">>
                  /\ hist' = [hist EXCEPT ![i + 1].dem_called = TRUE,
                                          ![i + 1].dem_ok = d.ok,
                                          ![i + 1].dem_name = d.name]
       ELSE /\ out' = out \o <<"?">> \o <<" ", "a", "t", " ">>
            /\ hist' = hist
    /\ pc' = "loc"
    /\ UNCHANGED <<Inputs, i, FrameLocals, spawned, proc>>

Addr2lineRequested_Always == TRUE

Addr2lineRequested == use_addr2line

FallbackLocation ==
    CStr(line, address) \o <<" ", "(">> \o CStr(line, executable) \o <<")">>

LocDisabled ==
    /\ pc = "loc"
    /\ ~Addr2lineRequested
    /\ out' = out \o FallbackLocation \o <<NL>>
    /\ hist' = [hist EXCEPT ![i + 1].loc = FallbackLocation]
    /\ EndFrame
    /\ UNCHANGED <<Inputs, spawned, proc>>

(* popen returns NULL: no subprocess.                                      *)
PopenFails ==
    /\ pc = "loc"
    /\ Addr2lineRequested
    /\ out' = out \o FallbackLocation \o <<NL>>
    /\ hist' = [hist EXCEPT ![i + 1].popen_called = TRUE,
                            ![i + 1].loc = FallbackLocation]
    /\ EndFrame
    /\ UNCHANGED <<Inputs, spawned, proc>>

(* popen starts addr2line; the caller goes on to block in fread.           *)
PopenStarts ==
    /\ pc = "loc"
    /\ Addr2lineRequested
    /\ spawned' = spawned + 1
    /\ proc' = [state |-> "running", written |-> <<>>]
    /\ hist' = [hist EXCEPT ![i + 1].popen_called = TRUE]
    /\ pc' = "fread"
    /\ UNCHANGED <<Inputs, i, out, FrameLocals>>

(* The subprocess writes its output and exits.  Nothing makes it do so.    *)
Addr2lineExits ==
    /\ proc.state = "running"
    /\ \E written \in Addr2lineOutputs :
          proc' = [state |-> "exited", written |-> written]
    /\ UNCHANGED <<Inputs, i, pc, out, FrameLocals, spawned, hist>>

(* fread returns at end of file; pclose; the rest of the iteration.        *)
FreadReturns ==
    /\ pc = "fread"
    /\ proc.state = "exited"
    /\ \E r \in {run_addr2line(proc.written)} :
       LET loc == IF r.ok THEN r.line ELSE FallbackLocation
       IN /\ out' = out \o loc \o <<NL>>
          /\ hist' = [hist EXCEPT ![i + 1].loc_ok = r.ok, ![i + 1].loc = loc]
    /\ proc' = [state |-> "none", written |-> <<>>]
    /\ EndFrame
    /\ UNCHANGED <<Inputs, spawned>>

ProgramStep ==
    \/ ResolveUnavailable
    \/ ResolveOk
    \/ LoopExit
    \/ FrameUnparsed
    \/ FrameParsed
    \/ NameStep
    \/ LocDisabled
    \/ PopenFails
    \/ PopenStarts
    \/ FreadReturns

Next ==
    \/ ResolveUnavailable
    \/ ResolveOk
    \/ LoopExit
    \/ FrameUnparsed
    \/ FrameParsed
    \/ NameStep
    \/ LocDisabled
    \/ PopenFails
    \/ PopenStarts
    \/ FreadReturns
    \/ Addr2lineExits

Spec == Init /\ [][Next]_vars

(* print_backtrace is straight-line code on one thread: each of its steps  *)
(* is taken once it is enabled.  The subprocess is under no obligation.    *)
LiveSpec == Spec /\ WF_vars(ProgramStep)

-----------------------------------------------------------------------------
(* The parser on its own: one call on one line.                            *)

InitCall(lines) ==
    /\ use_addr2line = FALSE
    /\ size = 1
    /\ symbols \in {<<s>> : s \in lines}
    /\ symbols_is_null = FALSE
    /\ i = 0
    /\ pc = "call"
    /\ out = <<>>
    /\ line = FreedBuf
    /\ parsed = FALSE
    /\ executable = NULLP
    /\ function = NULLP
    /\ offset = NULLP
    /\ address = NULLP
    /\ acc = {}
    /\ spawned = 0
    /\ proc = [state |-> "none", written |-> <<>>]
    /\ hist = <<>>

(* Every string over the alphabet, up to the bound.                        *)
InitRaw == InitCall(StringsUpTo(Alphabet, MaxRawLen))

CallParse ==
    /\ pc = "call"
    /\ \E pre \in PreBytes :
          \E r \in {parse_backtrace_line(MkBuf(symbols[1], pre))} :
             /\ line' = r.mem
             /\ parsed' = r.ok
             /\ executable' = r.filename
             /\ function' = r.function
             /\ offset' = r.offset
             /\ address' = r.address
             /\ acc' = r.acc
    /\ pc' = "returned"
    /\ UNCHANGED <<use_addr2line, size, symbols, symbols_is_null, i, out,
                   spawned, proc, hist>>

NextParse == CallParse

SpecRaw == InitRaw /\ [][NextParse]_vars

-----------------------------------------------------------------------------
(* The parser on well-formed lines of the two shapes.                      *)

ModulesA == StringsUpTo(Alphabet \ {"("}, MaxFieldLenA)
FunctionsA == StringsUpTo(Alphabet \ {"(", ")", "+"}, MaxFieldLenA)
OffsetsA == StringsUpTo(Alphabet \ {"(", ")"}, MaxFieldLenA)
AddressesA == StringsUpTo(Alphabet \ {"]"}, MaxFieldLenA)

ModulesB == StringsUpTo(Alphabet \ {"(", ")"}, MaxFieldLenB)
ModulesBNoBracket == StringsUpTo(Alphabet \ {"(", ")", "["}, MaxFieldLenB)
AddressesB == StringsUpTo(Alphabet \ {"(", ")", "]"}, MaxFieldLenB)

InitShapeA ==
    InitCall({ShapeA(m, f, o, a) :
                 m \in ModulesA, f \in FunctionsA,
                 o \in OffsetsA, a \in AddressesA})

InitShapeB == InitCall({ShapeB(m, a) : m \in ModulesB, a \in AddressesB})

SpecShapeA == InitShapeA /\ [][NextParse]_vars
SpecShapeB == InitShapeB /\ [][NextParse]_vars

-----------------------------------------------------------------------------
(* What the report shows.                                                  *)

HasNL(s) == \E k \in 1 .. Len(s) : s[k] = NL

FirstNL(s) == CHOOSE k \in 1 .. Len(s) :
                 s[k] = NL /\ \A m \in 1 .. (k - 1) : s[m] # NL

RECURSIVE SplitLines(_)
SplitLines(s) ==
    IF ~HasNL(s) THEN <<>>
    ELSE <<SubSeq(s, 1, FirstNL(s) - 1)>>
         \o SplitLines(SubSeq(s, FirstNL(s) + 1, Len(s)))

HasPrefix(s, p) == Len(p) <= Len(s) /\ SubSeq(s, 1, Len(p)) = p

HasSuffix(s, p) ==
    Len(p) <= Len(s) /\ SubSeq(s, Len(s) - Len(p) + 1, Len(s)) = p

Written == SplitLines(out)

(* The frames whose line is complete.                                      *)
Formatted == {j \in 1 .. Len(Written) : j <= Len(hist)}

EndsWithBracket(s) == Len(s) > 0 /\ s[Len(s)] = "]"

-----------------------------------------------------------------------------
(* C1: when the resolver returns descriptors for n frames, the report      *)
(* eventually ends with exactly n lines written, the i-th line starting    *)
(* with "i: ", whatever fails on any frame.                                *)
C1_EveryFrameFormatted ==
    ~symbols_is_null =>
        <>(/\ pc = "done"
           /\ Len(Written) = size
           /\ \A j \in 1 .. size : HasPrefix(Written[j], FramePrefix(j)))

(* C2: when backtrace_symbols returns NULL the output is nothing until the *)
(* sentinel is written and exactly the sentinel line afterwards, for any   *)
(* number of captured frames.                                              *)
C2_SentinelOnly ==
    symbols_is_null =>
        \/ pc = "entry" /\ out = <<>>
        \/ pc = "done" /\ out = Sentinel \o <<NL>>

C2_Witness ==
    symbols_is_null /\ size > 0 /\ pc = "done" /\ Len(Written) = 1

(* C3: the line of a frame whose parse failed is the frame number prefix   *)
(* followed by the resolver's descriptor, byte for byte.                   *)
C3_RawLineVerbatim ==
    \A j \in Formatted :
        ~hist[j].parsed => Written[j] = FramePrefix(j) \o symbols[j]

(* A frame whose parse failed after the parser wrote NULs into its copy.   *)
C3_Witness ==
    \E j \in Formatted : ~hist[j].parsed /\ hist[j].raw # symbols[j]

(* C4: on every line module(function+offset) [address] the parse succeeds  *)
(* and returns the four fields, which reassemble to the line.              *)
C4_ShapeARoundTrip ==
    pc = "returned" =>
        \A m \in ModulesA, f \in FunctionsA, o \in OffsetsA, a \in AddressesA :
            symbols[1] = ShapeA(m, f, o, a) =>
                /\ parsed
                /\ function # NULLP
                /\ offset # NULLP
                /\ CStr(line, executable) = m
                /\ CStr(line, function) = f
                /\ CStr(line, offset) = o
                /\ CStr(line, address) = a
                /\ ShapeA(CStr(line, executable), CStr(line, function),
                          CStr(line, offset), CStr(line, address)) = symbols[1]

(* C5 as stated: on every line module [address] without parentheses the    *)
(* parse succeeds with no function, no offset, the module before the       *)
(* space and a non-empty address.                                          *)
C5_ShapeBAsStated ==
    pc = "returned" =>
        \A m \in ModulesB, a \in AddressesB :
            symbols[1] = ShapeB(m, a) =>
                /\ parsed
                /\ function = NULLP
                /\ offset = NULLP
                /\ CStr(line, executable) = m
                /\ CStr(line, address) # <<>>

(* C5 as amended: on every line module [address] without parentheses whose *)
(* module has no "[" and whose address has no "]", the parse succeeds with *)
(* no function, no offset, the module before the space and the address     *)
(* between the brackets, which is empty when the line's address is.        *)
C5_ShapeBFirstBracket ==
    pc = "returned" =>
        \A m \in ModulesBNoBracket, a \in AddressesB :
            symbols[1] = ShapeB(m, a) =>
                /\ parsed
                /\ function = NULLP
                /\ offset = NULLP
                /\ CStr(line, executable) = m
                /\ CStr(line, address) = a

C5_Witness ==
    /\ pc = "returned"
    /\ parsed
    /\ function = NULLP
    /\ \E m \in ModulesBNoBracket, a \in AddressesB :
          symbols[1] = ShapeB(m, a) /\ Len(m) > 0 /\ Len(a) > 0

(* C6: a line whose final character is not "]" is a parse error.           *)
C6_NoFinalBracketIsError ==
    pc = "returned" /\ ~EndsWithBracket(symbols[1]) => ~parsed

(* C7: with use_addr2line false no subprocess is spawned and the line of   *)
(* every parsed frame ends with the location "<address> (<module>)".       *)
C7_DisabledNeverSpawns ==
    ~use_addr2line =>
        /\ spawned = 0
        /\ proc.state = "none"
        /\ \A j \in Formatted :
              hist[j].parsed =>
                  /\ ~hist[j].popen_called
                  /\ HasSuffix(Written[j],
                               <<" ", "a", "t", " ">> \o hist[j].addr
                               \o <<" ", "(">> \o hist[j].module \o <<")">>)

(* A finished report without resolution holding a parsed frame whose name  *)
(* did not demangle and a frame that did not parse.                        *)
C7_Witness ==
    /\ ~use_addr2line
    /\ pc = "done"
    /\ \E j \in Formatted : hist[j].parsed /\ hist[j].dem_called
                            /\ ~hist[j].dem_ok
    /\ \E j \in Formatted : ~hist[j].parsed

(* C8: the wait for the subprocess is bounded: a report blocked in fread   *)
(* always goes on to completion.                                           *)
C8_WaitIsBounded == (pc = "fread") ~> (pc = "done")

ExpectedName(h) ==
    IF ~h.has_function THEN <<"?">>
    ELSE IF h.dem_ok THEN h.dem_name
    ELSE h.fn \o <<"+">> \o h.off

(* C9: the line of a parsed frame shows the demangled name when demangling *)
(* succeeded, <function>+<offset> when it failed, "?" without a function;  *)
(* the demangler is called exactly for the frames with a function.         *)
C9_DisplayName ==
    \A j \in Formatted :
        hist[j].parsed =>
            /\ HasPrefix(Written[j],
                         FramePrefix(j) \o ExpectedName(hist[j])
                         \o <<" ", "a", "t", " ">>)
            /\ hist[j].dem_called = hist[j].has_function

(* A finished report with a demangled frame and a frame whose name failed  *)
(* to demangle.                                                            *)
C9_Witness ==
    /\ pc = "done"
    /\ \E j \in Formatted : hist[j].has_function /\ hist[j].dem_ok
    /\ \E j \in Formatted : hist[j].has_function /\ hist[j].dem_called
                            /\ ~hist[j].dem_ok

(* C10: parse_backtrace_line touches only indices 0 .. strlen(line) of its *)
(* argument.                                                               *)
C10_AccessInsideBuffer ==
    pc = "returned" => acc \subseteq 0 .. Len(symbols[1])

=============================================================================
